---- MODULE Spec2Model ----
(***************************************************************************)
(* BOSS Aggregator (scripts/aggregate.js): the bump-decision engine.       *)
(*                                                                         *)
(* One run() of the script is modelled as a sequence of atomic steps, one  *)
(* per awaited githubGet: each step takes the response of the request      *)
(* (drawn from a small set), and executes the synchronous code up to the   *)
(* next await (or to the end of run()).  version.json is the only state    *)
(* that survives a run.  The clock advances by one with every request, and *)
(* with every start of the script that aborts.                             *)
(*                                                                         *)
(* Strings that the code parses are sequences of one-character strings;    *)
(* the absent value (undefined, null, "") of a tag is the empty sequence.  *)
(* Timestamps are integers (milliseconds of the clock).                    *)
(***************************************************************************)
EXTENDS Integers, Sequences, FiniteSets, TLC

\* ------------------------------------------------------------------ bounds
\* The clock stops here: no step is taken at or after this time.
MaxClock == 7
\* Longest configured service list.
MaxServices == 2
\* Pull requests of a repository that are written out (the rest of its
\* pages is padding: closed PRs that were never merged and carry no label).
MaxPRs == 1
\* Pages of closed pull requests a repository has.
MaxPages == 1
\* Starts of the script.
MaxRuns == 3
\* getPRsSince on its own: the pull requests written out in the pages of a
\* repository, and its pages that are not empty.
MaxListed == 2
MaxSourcePages == 2
\* The label loop on its own: labels collected for a service.
MaxLabels == 3

\* Runs in a row of the run series.
MaxSeries == 3

\* per_page of the pulls request, and the "last page" test.
PerPage == 100

\* ------------------------------------------------------------ bump levels
BumpLevels == {"none", "patch", "minor", "major"}

priority == [b \in BumpLevels |->
               CASE b = "major" -> 3 [] b = "minor" -> 2
                 [] b = "patch" -> 1 [] OTHER -> 0]

Tiers == {1, 2, 3}

\* Tier 2 passing major through: the cap forgotten.
applyTierWeightNoCap(tier, bump) ==
  IF tier = 1 THEN bump
  ELSE IF tier = 2 THEN bump
  ELSE IF tier = 3 THEN (IF bump = "none" THEN "none" ELSE "patch")
  ELSE "none"

applyTierWeight(tier, bump) ==
  IF tier = 1 THEN bump
  ELSE IF tier = 2 THEN (IF bump = "major" THEN "minor" ELSE bump)
  ELSE IF tier = 3 THEN (IF bump = "none" THEN "none" ELSE "patch")
  ELSE "none"

\* ------------------------------------------------------------ tag parsing
Digits == {"0", "1", "2", "3", "4", "5", "6", "7", "8", "9"}

DigitVal(c) ==
  CASE c = "0" -> 0 [] c = "1" -> 1 [] c = "2" -> 2 [] c = "3" -> 3
    [] c = "4" -> 4 [] c = "5" -> 5 [] c = "6" -> 6 [] c = "7" -> 7
    [] c = "8" -> 8 [] c = "9" -> 9

\* Length of the run of digits of s that starts at index i (\d+, greedy).
RECURSIVE DigitRun(_, _)
DigitRun(s, i) ==
  IF i <= Len(s) /\ s[i] \in Digits THEN 1 + DigitRun(s, i + 1) ELSE 0

\* Number("12") = 12: the unary plus on a run of digits.
RECURSIVE ToNumber(_)
ToNumber(ds) ==
  IF ds = <<>> THEN 0
  ELSE 10 * ToNumber(SubSeq(ds, 1, Len(ds) - 1)) + DigitVal(ds[Len(ds)])

NoParse == [ok |-> FALSE, major |-> 0, minor |-> 0, patch |-> 0]

\* tag.replace(/^v/, '').match(/^(\d+)\.(\d+)\.(\d+)/)
parse(tag) ==
  LET s == IF tag # <<>> /\ Head(tag) = "v" THEN Tail(tag) ELSE tag
      a == DigitRun(s, 1)
      b == DigitRun(s, a + 2)
      c == DigitRun(s, a + b + 3)
  IN IF /\ a >= 1
        /\ a + 1 <= Len(s) /\ s[a + 1] = "."
        /\ b >= 1
        /\ a + b + 2 <= Len(s) /\ s[a + b + 2] = "."
        /\ c >= 1
     THEN [ok |-> TRUE,
           major |-> ToNumber(SubSeq(s, 1, a)),
           minor |-> ToNumber(SubSeq(s, a + 2, a + b + 1)),
           patch |-> ToNumber(SubSeq(s, a + b + 3, a + b + c + 2))]
     ELSE NoParse

\* The patch comparison written with >= : equal tags give patch.
classifyVersionDeltaGeq(oldTag, newTag) ==
  IF oldTag = <<>> \/ newTag = <<>> THEN "none"
  ELSE LET o == parse(oldTag)
           n == parse(newTag)
       IN IF ~o.ok \/ ~n.ok THEN "none"
          ELSE IF n.major > o.major THEN "major"
          ELSE IF n.minor > o.minor THEN "minor"
          ELSE IF n.patch >= o.patch THEN "patch"
          ELSE "none"

classifyVersionDelta(oldTag, newTag) ==
  IF oldTag = <<>> \/ newTag = <<>> THEN "none"
  ELSE LET o == parse(oldTag)
           n == parse(newTag)
       IN IF ~o.ok \/ ~n.ok THEN "none"
          ELSE IF n.major > o.major THEN "major"
          ELSE IF n.minor > o.minor THEN "minor"
          ELSE IF n.patch > o.patch THEN "patch"
          ELSE "none"

\* ------------------------------------------------------------ label table
labelToBump(tier, label) ==
  IF tier = 1 /\ label = "breaking-change" THEN "major"
  ELSE IF tier \in {1, 2} /\ label \in {"feature", "enhancement"} THEN "minor"
  ELSE IF tier \in {1, 2} /\ label = "bugfix" THEN "patch"
  ELSE IF tier = 3 /\ label # "" THEN "patch"
  ELSE "none"


\* Deduplication in first-seen order: [...new Set(allLabels)].
RECURSIVE Dedup(_)
Dedup(s) ==
  IF s = <<>> THEN <<>>
  ELSE LET init == Dedup(SubSeq(s, 1, Len(s) - 1))
           x == s[Len(s)]
       IN IF \E i \in 1..Len(init) : init[i] = x THEN init ELSE Append(init, x)

\* The loop comparing with >= : among labels of the same level the last wins.
RECURSIVE labelScanLast(_, _, _, _)
labelScanLast(tier, uniqueLabels, labelBump, winningLabel) ==
  IF uniqueLabels = <<>> THEN [labelBump |-> labelBump, winningLabel |-> winningLabel]
  ELSE LET label == Head(uniqueLabels)
           bump == labelToBump(tier, label)
       IN IF priority[bump] >= priority[labelBump]
          THEN labelScanLast(tier, Tail(uniqueLabels), bump, label)
          ELSE labelScanLast(tier, Tail(uniqueLabels), labelBump, winningLabel)

\* The loop over uniqueLabels of run(): the running maximum and its label.
RECURSIVE labelScan(_, _, _, _)
labelScan(tier, uniqueLabels, labelBump, winningLabel) ==
  IF uniqueLabels = <<>> THEN [labelBump |-> labelBump, winningLabel |-> winningLabel]
  ELSE LET label == Head(uniqueLabels)
           bump == labelToBump(tier, label)
       IN IF priority[bump] > priority[labelBump]
          THEN labelScan(tier, Tail(uniqueLabels), bump, label)
          ELSE labelScan(tier, Tail(uniqueLabels), labelBump, winningLabel)

\* ------------------------------------------------------------ strings
Absent == <<>>
V100 == <<"v", "1", ".", "0", ".", "0">>
V110 == <<"v", "1", ".", "1", ".", "0">>
V200 == <<"v", "2", ".", "0", ".", "0">>
NoRelease == <<"n", "o", "-", "r", "e", "l", "e", "a", "s", "e">>
FetchError == <<"f", "e", "t", "c", "h", "-", "e", "r", "r", "o", "r">>
Unknown == <<"u", "n", "k", "n", "o", "w", "n">>

Sentinels == {NoRelease, FetchError, Unknown}

\* s.split('.')
RECURSIVE Split(_)
Split(s) ==
  IF \A i \in 1..Len(s) : s[i] # "." THEN <<s>>
  ELSE LET k == CHOOSE i \in 1..Len(s) :
                  s[i] = "." /\ \A j \in 1..(i - 1) : s[j] # "."
       IN <<SubSeq(s, 1, k - 1)>> \o Split(SubSeq(s, k + 1, Len(s)))

\* String(n) of a non-negative integer.
RECURSIVE NumToString(_)
NumToString(n) ==
  LET d == CHOOSE c \in Digits : DigitVal(c) = n % 10
  IN IF n < 10 THEN <<d>> ELSE Append(NumToString(n \div 10), d)

\* `${major}.${minor}.${patch}`
Render(major, minor, patch) ==
  NumToString(major) \o <<".">> \o NumToString(minor) \o <<".">> \o NumToString(patch)

\* bossVersion.split('.').map(Number), destructured into three numbers.
Triple(bossVersion) ==
  LET parts == Split(bossVersion)
  IN <<ToNumber(parts[1]), ToNumber(parts[2]), ToNumber(parts[3])>>

\* The minor bump forgetting to reset the patch component.
newVersionOfBad(bossVersion, highestBump) ==
  LET t == Triple(bossVersion)
  IN IF highestBump = "major" THEN Render(t[1] + 1, 0, 0)
     ELSE IF highestBump = "minor" THEN Render(t[1], t[2] + 1, t[3])
     ELSE IF highestBump = "patch" THEN Render(t[1], t[2], t[3] + 1)
     ELSE bossVersion

\* The new BOSS version of the normal path.
newVersionOf(bossVersion, highestBump) ==
  LET t == Triple(bossVersion)
  IN IF highestBump = "major" THEN Render(t[1] + 1, 0, 0)
     ELSE IF highestBump = "minor" THEN Render(t[1], t[2] + 1, 0)
     ELSE IF highestBump = "patch" THEN Render(t[1], t[2], t[3] + 1)
     ELSE bossVersion

\* An override that resets minor and patch and forgets major++.
overrideVersionOfNoIncrement(bossVersion) ==
  LET t == Triple(bossVersion)
  IN Render(t[1], 0, 0)

\* The new BOSS version of the override path.
overrideVersionOf(bossVersion) ==
  LET t == Triple(bossVersion)
  IN Render(t[1] + 1, 0, 0)


\* ------------------------------------------------------------ state
VARIABLES
  config,            \* config.services: the ordered services [name, repo, tier]
  versionJson,       \* the record in ./version.json
  now,               \* the clock
  runs,              \* history: runs of the script started so far
  pc,                \* where run() is: idle, override, ovManifest, release,
                     \* pulls, done, failed
  currentVersion,    \* the record loaded at the start of run()
  lastAggregatedAt,  \* the anchor of this run
  storedServices,    \* currentVersion.services || {}
  idx,               \* index of the loop variable (service, s) in config
  priorityOverride, overrideRepo,
  highestBump, bumpReason, manifest, runTs,
  storedTag, currentTag, versionBump,       \* of the service being evaluated
  allLabels, page,                          \* locals of getPRsSince
  fresh,             \* history: the pages returned so far in this scan hold
                     \* a PR merged after the anchor
  shown,             \* the written-out pull requests returned in this scan
  requests,          \* history: the requests and the write of this run, in order
  last,              \* history: the response to the last request
  signal,            \* history: the signals of the last service evaluated
  t1RawMajor,        \* history: a Tier 1 service had a major raw bump in this run
  calm,              \* history: "quiet" while every service evaluated in this
                     \* run had an unchanged tag and no PR after the anchor,
                     \* "failed" when the others had a failed release fetch,
                     \* "active" otherwise
  call, result       \* a call of one of the pure functions, and its result

fileVars == <<config, versionJson, now, runs>>
runVars == <<pc, currentVersion, lastAggregatedAt, storedServices, idx,
             priorityOverride, overrideRepo, highestBump, bumpReason,
             manifest, runTs>>
scanVars == <<storedTag, currentTag, versionBump, allLabels, page, fresh, shown>>
histVars == <<requests, last, signal, t1RawMajor, calm>>
fnVars == <<call, result>>
vars == <<fileVars, runVars, scanVars, histVars, fnVars>>

\* ------------------------------------------------------------ inputs
Missing == 0 - 1          \* a timestamp field that is not there (or null)

Configs == UNION {[1..n -> Tiers] : n \in 1..MaxServices}

Services(tiers) == [i \in 1..Len(tiers) |-> [name |-> i, repo |-> i, tier |-> tiers[i]]]

ReleaseTags == {V100, V110, V200}

\* What GET /repos/<repo>/releases?per_page=1 gives: a failure (transport or
\* JSON), a body that is no array, an empty array, or the newest release.
ReleaseResponses ==
  {[kind |-> k, tag |-> Absent] : k \in {"error", "notarray", "empty"}}
    \cup {[kind |-> "ok", tag |-> t] : t \in ReleaseTags}

Marker == "[priority:critical]"

\* Commit messages are sequences of words.
toLowerCase(word) ==
  CASE word \in {"[PRIORITY:CRITICAL]", "[Priority:Critical]"} -> Marker
    [] word = "Hotfix" -> "hotfix"
    [] OTHER -> word

CommitLists ==
  { <<>>,
    << <<>>, <<"[priority:high]", "fix">> >>,
    << <<"fix", "login">>, <<"Hotfix", "[PRIORITY:CRITICAL]">> >>,
    << <<"[priority:critical]", "patch">> >> }

CommitResponses ==
  {[kind |-> k, commits |-> <<>>] : k \in {"error", "notarray"}}
    \cup {[kind |-> "ok", commits |-> c] : c \in CommitLists}

LabelLists ==
  { <<"bugfix">>, <<"breaking-change", "feature">>, <<"docs">> }

\* Closed pull requests around the anchor: never merged (merged_at null),
\* merged at the anchor, merged after it.
PullRequests(since) ==
  {[merged_at |-> t, labels |-> <<"breaking-change">>] : t \in {Missing, since}}
    \cup {[merged_at |-> since + 1, labels |-> l] : l \in LabelLists}

\* The lengths the written-out part of page p may have, when the earlier
\* pages held k written-out pull requests: a repository has no pull
\* requests beyond page MaxPages.
PullCounts(p, k) == IF p <= MaxPages THEN 0..(MaxPRs - k) ELSE {0}

\* A page is prs followed by pad pull requests that were closed without a
\* merge: none, or as many as fill the page.
Page(prs, full) ==
  [kind |-> "ok", prs |-> prs, pad |-> IF full THEN PerPage - Len(prs) ELSE 0]

\* A failure (transport or JSON), or a body that is no array.
NoPage(kind) == [kind |-> kind, prs |-> <<>>, pad |-> 0]

\* ------------------------------------------------------------ records
NoReason == [kind |-> "none", svc |-> 0, tier |-> 0, by |-> "",
             from |-> Absent, to |-> Absent, label |-> ""]

\* 'No services changed in this cycle'
DefaultReason == [NoReason EXCEPT !.kind = "default"]

\* `Emergency override - [priority:critical] in ${overrideRepo}`
OverrideReason(name) == [NoReason EXCEPT !.kind = "override", !.svc = name]

\* `${service.name} (Tier ${service.tier}) - ${signalSource}`
ServiceReason(service, vHigher, old, new, winningLabel) ==
  IF vHigher
  THEN [NoReason EXCEPT !.kind = "service", !.svc = service.name,
                        !.tier = service.tier, !.by = "version delta",
                        !.from = old, !.to = new]
  ELSE [NoReason EXCEPT !.kind = "service", !.svc = service.name,
                        !.tier = service.tier, !.by = "label",
                        !.label = winningLabel]

Lookup(m, k) == IF k \in DOMAIN m THEN m[k] ELSE Absent

\* a || b on tags
OrElse(a, b) == IF a = Absent THEN b ELSE a

Put(m, k, v) == [x \in DOMAIN m \cup {k} |-> IF x = k THEN v ELSE m[x]]

EmptyManifest == [x \in {} |-> Absent]

SeedVersion == <<"1", ".", "9", ".", "9">>

SeedReason == [NoReason EXCEPT !.kind = "seed"]

NoRecord == [bossVersion |-> Absent, previousVersion |-> Absent, bumpType |-> "none",
             bumpReason |-> NoReason, lastUpdated |-> Missing,
             lastAggregatedAt |-> Missing, services |-> EmptyManifest]

NoCall == [fn |-> "", tier |-> 0, bump |-> "", label |-> "",
           oldTag |-> Absent, newTag |-> Absent,
           labels |-> <<>>, since |-> 0, listed |-> <<>>,
           services |-> <<>>, world |-> <<>>, order |-> <<>>]

NoResponse == [op |-> "", svc |-> 0, kind |-> "", tag |-> Absent]

NoSignal == [svc |-> 0, tier |-> 0, scanned |-> FALSE,
             versionBump |-> "none", labelBump |-> "none", winningLabel |-> "",
             by |-> "", rawBump |-> "none", serviceBump |-> "none"]

\* The seed file of the first run, written by hand before the anchor field
\* existed (lastAggregatedAt is missing), with or without a manifest.
SeedFiles(services) ==
  {[bossVersion |-> SeedVersion, previousVersion |-> SeedVersion,
    bumpType |-> "none", bumpReason |-> SeedReason, lastUpdated |-> 1,
    lastAggregatedAt |-> Missing, services |-> m] :
     m \in {EmptyManifest, [i \in 1..Len(services) |-> V100]}}

RunReset ==
  /\ idx' = 1
  /\ priorityOverride' = FALSE
  /\ overrideRepo' = 0
  /\ highestBump' = "none"
  /\ bumpReason' = DefaultReason
  /\ manifest' = EmptyManifest
  /\ runTs' = Missing
  /\ storedTag' = Absent
  /\ currentTag' = Absent
  /\ versionBump' = "none"
  /\ allLabels' = <<>>
  /\ page' = 1
  /\ fresh' = FALSE
  /\ shown' = 0
  /\ requests' = <<>>
  /\ last' = NoResponse
  /\ signal' = NoSignal
  /\ t1RawMajor' = FALSE
  /\ calm' = "quiet"

Idle ==
  /\ now = 1
  /\ runs = 0
  /\ pc = "idle"
  /\ currentVersion = NoRecord
  /\ lastAggregatedAt = Missing
  /\ storedServices = EmptyManifest
  /\ idx = 1
  /\ priorityOverride = FALSE
  /\ overrideRepo = 0
  /\ highestBump = "none"
  /\ bumpReason = DefaultReason
  /\ manifest = EmptyManifest
  /\ runTs = Missing
  /\ storedTag = Absent
  /\ currentTag = Absent
  /\ versionBump = "none"
  /\ allLabels = <<>>
  /\ page = 1
  /\ fresh = FALSE
  /\ shown = 0
  /\ requests = <<>>
  /\ last = NoResponse
  /\ signal = NoSignal
  /\ t1RawMajor = FALSE
  /\ calm = "quiet"

Init ==
  /\ config \in {Services(t) : t \in Configs}
  /\ versionJson \in SeedFiles(config)
  /\ Idle
  /\ call = NoCall
  /\ result = ""

\* ------------------------------------------------------------ run(): load
\* The script is started; version.json is read and parsed.
Start ==
  /\ pc \in {"idle", "done", "failed"}
  /\ now < MaxClock
  /\ runs < MaxRuns
  /\ runs' = runs + 1
  /\ currentVersion' = versionJson
  /\ lastAggregatedAt' = IF versionJson.lastAggregatedAt # Missing
                         THEN versionJson.lastAggregatedAt
                         ELSE versionJson.lastUpdated
  /\ storedServices' = versionJson.services
  /\ pc' = "override"
  /\ RunReset
  /\ UNCHANGED <<config, versionJson, now, fnVars>>

\* The script is started and version.json cannot be read or parsed: run()
\* rejects and the process exits with status 1.  The next start is a later
\* one.
StartFail ==
  /\ pc \in {"idle", "done", "failed"}
  /\ now < MaxClock
  /\ runs < MaxRuns
  /\ runs' = runs + 1
  /\ now' = now + 1
  /\ currentVersion' = NoRecord
  /\ lastAggregatedAt' = Missing
  /\ storedServices' = EmptyManifest
  /\ pc' = "failed"
  /\ RunReset
  /\ UNCHANGED <<config, versionJson, fnVars>>

\* ------------------------------------------------------------ layer 1
includes(msg, word) == \E i \in 1..Len(msg) : toLowerCase(msg[i]) = word

\* A check that fails closed: a failed fetch counts as the marker found.
checkPriorityOverrideClosed(commits) ==
  \/ commits.kind = "error"
  \/ /\ commits.kind = "ok"
     /\ \E i \in 1..Len(commits.commits) : includes(commits.commits[i], Marker)

checkPriorityOverride(commits) ==
  /\ commits.kind = "ok"
  /\ \E i \in 1..Len(commits.commits) : includes(commits.commits[i], Marker)

Request(op, service, p) == [op |-> op, svc |-> service.name, page |-> p]

WriteFile == [op |-> "write", svc |-> 0, page |-> 0]

Response(op, service, kind, tag) ==
  [op |-> op, svc |-> service.name, kind |-> kind, tag |-> tag]

\* The record written to version.json.
Output(bossVersion, bumpType, reason, ts, services) ==
  [bossVersion |-> bossVersion,
   previousVersion |-> currentVersion.bossVersion,
   bumpType |-> bumpType,
   bumpReason |-> reason,
   lastUpdated |-> ts,
   lastAggregatedAt |-> ts,
   services |-> services]

\* A loop that goes on after the marker is found.
breaksNever(found) == FALSE

\* The break of the override loop.
breaks(found) == found

\* One iteration of the override loop: the commits of config[idx] arrive.
\* When the loop ends with the override set, the new version and runTs are
\* computed before the manifest loop starts.
CheckOverride ==
  /\ pc = "override"
  /\ now < MaxClock
  /\ \E commits \in CommitResponses :
       LET service == config[idx]
           found == checkPriorityOverride(commits)
           over == priorityOverride \/ found
       IN /\ now' = now + 1
          /\ requests' = Append(requests, Request("commits", service, 0))
          /\ last' = Response("commits", service,
                              IF commits.kind = "ok" /\ found THEN "marker"
                              ELSE commits.kind, Absent)
          /\ priorityOverride' = over
          /\ overrideRepo' = IF found THEN service.name ELSE overrideRepo
          /\ IF ~breaks(found) /\ idx < Len(config)
             THEN idx' = idx + 1 /\ pc' = "override" /\ UNCHANGED runTs
             ELSE IF over
             THEN idx' = 1 /\ pc' = "ovManifest" /\ runTs' = now'
             ELSE idx' = 1 /\ pc' = "release" /\ UNCHANGED runTs
  /\ UNCHANGED <<config, versionJson, runs, currentVersion, lastAggregatedAt,
                 storedServices, highestBump, bumpReason, manifest,
                 scanVars, signal, t1RawMajor, calm, fnVars>>

\* An override path that omits a service whose release cannot be fetched.
overrideEntryOmit(rels, stored) ==
  IF rels.kind = "ok" THEN rels.tag ELSE Absent

\* The manifest entry of the override path.
overrideEntry(rels, stored) ==
  IF rels.kind = "ok" THEN rels.tag ELSE OrElse(stored, Unknown)

\* The timestamp written by the override path: taken when the override is
\* found, before the releases are fetched.
overrideStamp == runTs

\* One iteration of the manifest loop of the override path: the newest
\* release of config[idx] arrives; after the last one version.json is written.
OverrideManifest ==
  /\ pc = "ovManifest"
  /\ now < MaxClock
  /\ \E rels \in ReleaseResponses :
       LET s == config[idx]
           m == Put(manifest, s.name, overrideEntry(rels, Lookup(storedServices, s.name)))
           reqs == Append(requests, Request("releases", s, 0))
       IN /\ now' = now + 1
          /\ manifest' = m
          /\ last' = Response("releases", s, rels.kind, rels.tag)
          /\ IF idx < Len(config)
             THEN /\ idx' = idx + 1
                  /\ requests' = reqs
                  /\ UNCHANGED <<pc, versionJson>>
             ELSE /\ idx' = idx
                  /\ versionJson' = Output(overrideVersionOf(currentVersion.bossVersion),
                                           "major", OverrideReason(overrideRepo),
                                           overrideStamp, m)
                  /\ requests' = Append(reqs, WriteFile)
                  /\ pc' = "done"
  /\ UNCHANGED <<config, runs, currentVersion, lastAggregatedAt, storedServices,
                 priorityOverride, overrideRepo, highestBump, bumpReason, runTs,
                 scanVars, signal, t1RawMajor, calm, fnVars>>


\* ------------------------------------------------------------ layers 2 + 3
\* The write placed inside the service loop: version.json is written at the
\* end of every iteration.
EndOfServiceWritesEach(m, hb, br, reqs) ==
  /\ storedTag' = Absent
  /\ currentTag' = Absent
  /\ versionBump' = "none"
  /\ allLabels' = <<>>
  /\ page' = 1
  /\ fresh' = FALSE
  /\ shown' = 0
  /\ manifest' = m
  /\ highestBump' = hb
  /\ bumpReason' = br
  /\ runTs' = now'
  /\ versionJson' = Output(newVersionOf(currentVersion.bossVersion, hb),
                           hb, br, now', m)
  /\ requests' = Append(reqs, WriteFile)
  /\ IF idx < Len(config)
     THEN idx' = idx + 1 /\ pc' = "release"
     ELSE idx' = idx /\ pc' = "done"

\* The end of one iteration of the service loop, with the values the
\* iteration leaves in manifest, highestBump, bumpReason: the locals of the
\* iteration go out of scope; then the next iteration, or after the last one
\* the new version and the write of version.json.
EndOfService(m, hb, br, reqs) ==
  /\ storedTag' = Absent
  /\ currentTag' = Absent
  /\ versionBump' = "none"
  /\ allLabels' = <<>>
  /\ page' = 1
  /\ fresh' = FALSE
  /\ shown' = 0
  /\ manifest' = m
  /\ highestBump' = hb
  /\ bumpReason' = br
  /\ IF idx < Len(config)
     THEN /\ idx' = idx + 1
          /\ pc' = "release"
          /\ requests' = reqs
          /\ UNCHANGED <<versionJson, runTs>>
     ELSE /\ idx' = idx
          /\ pc' = "done"
          /\ runTs' = now'
          /\ versionJson' = Output(newVersionOf(currentVersion.bossVersion, hb),
                                   hb, br, now', m)
          /\ requests' = Append(reqs, WriteFile)

\* A failed fetch that drops the stored tag.
failedEntryForget(stored) == FetchError

\* The manifest entry of a service whose release fetch failed.
failedEntry(stored) == OrElse(stored, FetchError)

Calmer(c, kind) ==
  IF c = "active" \/ kind = "active" THEN "active"
  ELSE IF c = "failed" \/ kind = "failed" THEN "failed"
  ELSE "quiet"

\* The newest release of config[idx] arrives.
FetchRelease ==
  /\ pc = "release"
  /\ now < MaxClock
  /\ \E releases \in ReleaseResponses :
       LET service == config[idx]
           stored == Lookup(storedServices, service.name)
           reqs == Append(requests, Request("releases", service, 0))
       IN /\ now' = now + 1
          /\ last' = Response("releases", service, releases.kind, releases.tag)
          /\ IF releases.kind = "error"
             THEN /\ EndOfService(Put(manifest, service.name, failedEntry(stored)),
                                  highestBump, bumpReason, reqs)
                  /\ signal' = [NoSignal EXCEPT !.svc = service.name,
                                                !.tier = service.tier]
                  /\ calm' = Calmer(calm, "failed")
             ELSE IF releases.kind \in {"notarray", "empty"}
             THEN /\ EndOfService(Put(manifest, service.name, NoRelease),
                                  highestBump, bumpReason, reqs)
                  /\ signal' = [NoSignal EXCEPT !.svc = service.name,
                                                !.tier = service.tier]
                  /\ calm' = Calmer(calm, "active")
             ELSE /\ currentTag' = releases.tag
                  /\ storedTag' = stored
                  /\ manifest' = Put(manifest, service.name, releases.tag)
                  /\ versionBump' = classifyVersionDelta(stored, releases.tag)
                  /\ allLabels' = <<>>
                  /\ page' = 1
                  /\ fresh' = FALSE
                  /\ shown' = 0
                  /\ pc' = "pulls"
                  /\ requests' = reqs
                  /\ UNCHANGED <<versionJson, runTs, idx, highestBump, bumpReason,
                                 signal, calm>>
  /\ UNCHANGED <<config, runs, currentVersion, lastAggregatedAt, storedServices,
                 priorityOverride, overrideRepo, t1RawMajor, fnVars>>

\* The stop test written with < : a PR merged at the anchor is collected.
RECURSIVE scanPageStrict(_, _, _)
scanPageStrict(prs, sinceDate, labels) ==
  IF prs = <<>> THEN [allLabels |-> labels, keepGoing |-> TRUE]
  ELSE LET pr == Head(prs)
       IN IF pr.merged_at = Missing THEN scanPageStrict(Tail(prs), sinceDate, labels)
          ELSE IF pr.merged_at < sinceDate
               THEN [allLabels |-> labels, keepGoing |-> FALSE]
          ELSE scanPageStrict(Tail(prs), sinceDate, labels \o pr.labels)

\* The for loop of getPRsSince over one page.
RECURSIVE scanPage(_, _, _)
scanPage(prs, sinceDate, labels) ==
  IF prs = <<>> THEN [allLabels |-> labels, keepGoing |-> TRUE]
  ELSE LET pr == Head(prs)
       IN IF pr.merged_at = Missing THEN scanPage(Tail(prs), sinceDate, labels)
          ELSE IF pr.merged_at <= sinceDate
               THEN [allLabels |-> labels, keepGoing |-> FALSE]
          ELSE scanPage(Tail(prs), sinceDate, labels \o pr.labels)

\* The loop without its last-page test: a short page is followed by one
\* more request.
pageStepNoLastPage(prs, sinceDate, labels) ==
  IF prs.kind = "error" THEN [allLabels |-> labels, more |-> FALSE]
  ELSE IF prs.kind = "notarray" \/ Len(prs.prs) + prs.pad = 0
       THEN [allLabels |-> labels, more |-> FALSE]
  ELSE LET r == scanPage(prs.prs, sinceDate, labels)
       IN [allLabels |-> r.allLabels, more |-> r.keepGoing]

\* A failed page that throws out of getPRsSince: the labels gathered so far
\* are lost with it.
pageStepThrows(prs, sinceDate, labels) ==
  IF prs.kind = "error" THEN [allLabels |-> <<>>, more |-> FALSE]
  ELSE IF prs.kind = "notarray" \/ Len(prs.prs) + prs.pad = 0
       THEN [allLabels |-> labels, more |-> FALSE]
  ELSE LET r == scanPage(prs.prs, sinceDate, labels)
       IN [allLabels |-> r.allLabels,
           more |-> r.keepGoing /\ ~(Len(prs.prs) + prs.pad < PerPage)]

\* One iteration of the while loop of getPRsSince on the response prs:
\* the labels so far, and whether another page is requested.
pageStep(prs, sinceDate, labels) ==
  IF prs.kind = "error" THEN [allLabels |-> labels, more |-> FALSE]
  ELSE IF prs.kind = "notarray" \/ Len(prs.prs) + prs.pad = 0
       THEN [allLabels |-> labels, more |-> FALSE]
  ELSE LET r == scanPage(prs.prs, sinceDate, labels)
       IN [allLabels |-> r.allLabels,
           more |-> r.keepGoing /\ ~(Len(prs.prs) + prs.pad < PerPage)]

\* The comparison written with > : a tie goes to the label.
isVersionHigherStrict(vBump, lBump) == priority[vBump] > priority[lBump]

isVersionHigher(vBump, lBump) == priority[vBump] >= priority[lBump]

\* The comparison written with >= : a later service with an equal bump
\* replaces the justification.
isNewHighestOrEqual(serviceBump, highest) == priority[serviceBump] >= priority[highest]

\* The update done without the comparison: the last service that yields a
\* bump sets highestBump.
isNewHighestAlways(serviceBump, highest) == TRUE

isNewHighest(serviceBump, highest) == priority[serviceBump] > priority[highest]

\* The response prs to the request for a page of the closed pull requests of
\* config[idx] arrives; when the page is the last one getPRsSince returns and
\* the service is evaluated.
GotPulls(prs) ==
  LET service == config[idx]
      step == pageStep(prs, lastAggregatedAt, allLabels)
      seen == fresh \/ \E i \in 1..Len(prs.prs) :
                         prs.prs[i].merged_at > lastAggregatedAt
      reqs == Append(requests, Request("pulls", service, page))
      uniqueLabels == Dedup(step.allLabels)
      ls == labelScan(service.tier, uniqueLabels, "none", "")
      vHigher == isVersionHigher(versionBump, ls.labelBump)
      rawBump == IF vHigher THEN versionBump ELSE ls.labelBump
      serviceBump == applyTierWeight(service.tier, rawBump)
      newHigh == serviceBump # "none" /\ isNewHighest(serviceBump, highestBump)
  IN /\ now' = now + 1
     /\ last' = Response("pulls", service, prs.kind, Absent)
     /\ IF step.more
        THEN /\ allLabels' = step.allLabels
             /\ page' = page + 1
             /\ fresh' = seen
             /\ shown' = shown + Len(prs.prs)
             /\ requests' = reqs
             /\ UNCHANGED <<storedTag, currentTag, versionBump>>
             /\ UNCHANGED <<pc, idx, versionJson, runTs, highestBump,
                            bumpReason, manifest, signal, t1RawMajor, calm>>
        ELSE /\ EndOfService(manifest,
                             IF newHigh THEN serviceBump ELSE highestBump,
                             IF newHigh
                             THEN ServiceReason(service, vHigher, storedTag,
                                                currentTag, ls.winningLabel)
                             ELSE bumpReason,
                             reqs)
             /\ signal' = [svc |-> service.name, tier |-> service.tier,
                           scanned |-> TRUE,
                           versionBump |-> versionBump,
                           labelBump |-> ls.labelBump,
                           winningLabel |-> ls.winningLabel,
                           by |-> IF vHigher THEN "version delta" ELSE "label",
                           rawBump |-> rawBump, serviceBump |-> serviceBump]
             /\ t1RawMajor' = (t1RawMajor \/ (service.tier = 1 /\ rawBump = "major"))
             /\ calm' = Calmer(calm, IF currentTag = storedTag /\ ~seen
                                     THEN "quiet" ELSE "active")
     /\ UNCHANGED <<config, runs, currentVersion, lastAggregatedAt, storedServices,
                    priorityOverride, overrideRepo, fnVars>>

\* One iteration of the while loop of getPRsSince: a page of the closed pull
\* requests of config[idx] is requested.
FetchPulls ==
  /\ pc = "pulls"
  /\ now < MaxClock
  /\ \/ \E kind \in {"error", "notarray"} : GotPulls(NoPage(kind))
     \/ \E n \in PullCounts(page, shown) :
          \E prs \in [1..n -> PullRequests(lastAggregatedAt)] :
            \E full \in (IF page <= MaxPages THEN BOOLEAN ELSE {FALSE}) :
              GotPulls(Page(prs, full))

Next ==
  \/ Start
  \/ CheckOverride
  \/ OverrideManifest
  \/ FetchRelease
  \/ FetchPulls

\* Runs of the script over a readable version.json.
Spec == Init /\ [][Next]_vars

NextAbort ==
  \/ Next
  \/ StartFail

\* Runs of the script, some of which find version.json unreadable.
SpecAbort == Init /\ [][NextAbort]_vars

\* ------------------------------------------------------------ the functions
\* Tags handed to classifyVersionDelta.
T123 == <<"v", "1", ".", "2", ".", "3">>
T123Bare == <<"1", ".", "2", ".", "3">>
T124 == <<"v", "1", ".", "2", ".", "4">>
T119 == <<"v", "1", ".", "1", ".", "9">>
T130 == <<"v", "1", ".", "3", ".", "0">>
T150 == <<"v", "1", ".", "5", ".", "0">>
T1000 == <<"v", "1", "0", ".", "0", ".", "0">>
T200Rc == <<"v", "2", ".", "0", ".", "0", "-", "r", "c", "1">>
T12 == <<"v", "1", ".", "2">>
TUpper == <<"V", "1", ".", "2", ".", "3">>
TLatest == <<"l", "a", "t", "e", "s", "t">>

Tags == {Absent, T123, T123Bare, T124, T119, T130, T150, V200, T1000, T200Rc,
         T12, TUpper, TLatest}

Labels == {"breaking-change", "feature", "enhancement", "bugfix", "docs", ""}

\* Nothing is running: the functions are called on their own.
InitPure ==
  /\ config = Services(<<1>>)
  /\ versionJson \in SeedFiles(config)
  /\ Idle
  /\ call = NoCall
  /\ result = ""

CallApplyTierWeight ==
  /\ \E tier \in Tiers \cup {4} : \E bump \in BumpLevels :
       /\ call' = [NoCall EXCEPT !.fn = "applyTierWeight", !.tier = tier, !.bump = bump]
       /\ result' = applyTierWeight(tier, bump)
  /\ UNCHANGED <<fileVars, runVars, scanVars, histVars>>

CallClassifyVersionDelta ==
  /\ \E oldTag \in Tags : \E newTag \in Tags :
       /\ call' = [NoCall EXCEPT !.fn = "classifyVersionDelta",
                                 !.oldTag = oldTag, !.newTag = newTag]
       /\ result' = classifyVersionDelta(oldTag, newTag)
  /\ UNCHANGED <<fileVars, runVars, scanVars, histVars>>

CallLabelToBump ==
  /\ \E tier \in Tiers \cup {4} : \E label \in Labels :
       /\ call' = [NoCall EXCEPT !.fn = "labelToBump", !.tier = tier, !.label = label]
       /\ result' = labelToBump(tier, label)
  /\ UNCHANGED <<fileVars, runVars, scanVars, histVars>>

NextPure ==
  \/ CallApplyTierWeight
  \/ CallClassifyVersionDelta
  \/ CallLabelToBump

\* Calls of the functions of the script, on any arguments.
SpecPure == InitPure /\ [][NextPure]_vars


\* ------------------------------------------------------------ getPRsSince
\* getPRsSince(repo, sinceISO) called on its own.  call.listed is the pages
\* returned so far, result the locals allLabels and whether the while loop
\* goes on.  The order of a page is the order of last update, which any order
\* of these pull requests can be (a pull request is updated at or after its
\* merge, by a comment or a label for instance).
InitScan ==
  /\ config = Services(<<1>>)
  /\ versionJson \in SeedFiles(config)
  /\ Idle
  /\ \E since \in 1..2 :
       call = [NoCall EXCEPT !.fn = "getPRsSince", !.since = since]
  /\ result = [allLabels |-> <<>>, more |-> TRUE]

RECURSIVE Flat(_)
Flat(pages) ==
  IF pages = <<>> THEN <<>>
  ELSE Flat(SubSeq(pages, 1, Len(pages) - 1)) \o pages[Len(pages)].prs

\* A repository has MaxListed written-out pull requests at most, and no pull
\* request beyond page MaxSourcePages.
ListCounts(p, k) == IF p <= MaxSourcePages THEN 0..(MaxListed - k) ELSE {0}

GotPage(prs) ==
  LET step == pageStep(prs, call.since, result.allLabels)
  IN /\ call' = [call EXCEPT !.listed = Append(@, prs)]
     /\ result' = [allLabels |-> step.allLabels, more |-> step.more]
     /\ UNCHANGED <<fileVars, runVars, scanVars, histVars>>

\* One iteration of the while loop: the next page is requested.
ScanPage ==
  /\ call.fn = "getPRsSince"
  /\ result.more
  /\ LET p == Len(call.listed) + 1
     IN \/ \E kind \in {"error", "notarray"} : GotPage(NoPage(kind))
        \/ \E n \in ListCounts(p, Len(Flat(call.listed))) :
             \E prs \in [1..n -> PullRequests(call.since)] :
               \E full \in (IF p <= MaxSourcePages THEN BOOLEAN ELSE {FALSE}) :
                 GotPage(Page(prs, full))

NextScan == ScanPage

\* Calls of getPRsSince over the repositories of at most MaxListed
\* written-out pull requests.
SpecScan == InitScan /\ [][NextScan]_vars


\* ------------------------------------------------------------ the label loop
\* Signal 2 of run() on its own: the labels getPRsSince returned for a
\* service of some tier; result is the locals labelBump and winningLabel
\* (null is ""), and whether the loop has run.
InitLabels ==
  /\ config = Services(<<1>>)
  /\ versionJson \in SeedFiles(config)
  /\ Idle
  /\ \E tier \in Tiers : \E n \in 0..MaxLabels : \E labels \in [1..n -> Labels] :
       call = [NoCall EXCEPT !.fn = "labelBump", !.tier = tier, !.labels = labels]
  /\ result = [labelBump |-> "none", winningLabel |-> "", done |-> FALSE]

LabelLoop ==
  /\ call.fn = "labelBump"
  /\ ~result.done
  /\ LET uniqueLabels == Dedup(call.labels)
         ls == labelScan(call.tier, uniqueLabels, result.labelBump, result.winningLabel)
     IN result' = [labelBump |-> ls.labelBump, winningLabel |-> ls.winningLabel,
                   done |-> TRUE]
  /\ UNCHANGED <<fileVars, runVars, scanVars, histVars, call>>

NextLabels == LabelLoop

\* The label loop of run() on the labels of at most MaxLabels.
SpecLabels == InitLabels /\ [][NextLabels]_vars


\* ------------------------------------------------------------ run() as a whole
\* What a service answers during one run: its commits, its newest release,
\* and the labels getPRsSince returns for it.
Worlds ==
  [commits : {[kind |-> "ok", commits |-> c] :
                c \in {<<>>, << <<"[priority:critical]", "patch">> >>}},
   releases : {[kind |-> "error", tag |-> Absent],
               [kind |-> "ok", tag |-> V100], [kind |-> "ok", tag |-> V200]},
   labels : {<<>>, <<"breaking-change", "feature">>}]

\* The override loop from service i on: the name of the first service whose
\* commits hold the marker, 0 when there is none.
RECURSIVE overrideLoop(_, _, _)
overrideLoop(services, world, i) ==
  IF i > Len(services) THEN 0
  ELSE IF breaks(checkPriorityOverride(world[services[i].name].commits))
       THEN services[i].name
       ELSE overrideLoop(services, world, i + 1)

\* The manifest loop of the override path from service i on.
RECURSIVE overrideManifest(_, _, _, _, _)
overrideManifest(services, world, stored, i, m) ==
  IF i > Len(services) THEN m
  ELSE LET s == services[i]
       IN overrideManifest(services, world, stored, i + 1,
            Put(m, s.name, overrideEntry(world[s.name].releases, Lookup(stored, s.name))))

\* The service loop of the normal path from service i on, with the values of
\* highestBump, bumpReason and manifest so far.
RECURSIVE serviceLoop(_, _, _, _, _, _, _)
serviceLoop(services, world, stored, i, hb, br, m) ==
  IF i > Len(services) THEN [highestBump |-> hb, bumpReason |-> br, manifest |-> m]
  ELSE LET service == services[i]
           releases == world[service.name].releases
           storedT == Lookup(stored, service.name)
           vBump == classifyVersionDelta(storedT, releases.tag)
           ls == labelScan(service.tier, Dedup(world[service.name].labels), "none", "")
           vHigher == isVersionHigher(vBump, ls.labelBump)
           rawBump == IF vHigher THEN vBump ELSE ls.labelBump
           serviceBump == applyTierWeight(service.tier, rawBump)
           newHigh == serviceBump # "none" /\ isNewHighest(serviceBump, hb)
       IN IF releases.kind = "error"
          THEN serviceLoop(services, world, stored, i + 1, hb, br,
                           Put(m, service.name, failedEntry(storedT)))
          ELSE IF releases.kind \in {"notarray", "empty"}
          THEN serviceLoop(services, world, stored, i + 1, hb, br,
                           Put(m, service.name, NoRelease))
          ELSE serviceLoop(services, world, stored, i + 1,
                           IF newHigh THEN serviceBump ELSE hb,
                           IF newHigh
                           THEN ServiceReason(service, vHigher, storedT,
                                              releases.tag, ls.winningLabel)
                           ELSE br,
                           Put(m, service.name, releases.tag))

\* What run() writes (but for the timestamps) over the services in the
\* given order, each answering as world says, from the loaded record.
runOutcome(services, world, loaded) ==
  LET over == overrideLoop(services, world, 1)
      r == serviceLoop(services, world, loaded.services, 1,
                       "none", DefaultReason, EmptyManifest)
  IN IF over # 0
     THEN [bossVersion |-> overrideVersionOf(loaded.bossVersion),
           previousVersion |-> loaded.bossVersion,
           bumpType |-> "major",
           bumpReason |-> OverrideReason(over),
           services |-> overrideManifest(services, world, loaded.services, 1,
                                         EmptyManifest)]
     ELSE [bossVersion |-> newVersionOf(loaded.bossVersion, r.highestBump),
           previousVersion |-> loaded.bossVersion,
           bumpType |-> r.highestBump,
           bumpReason |-> r.bumpReason,
           services |-> r.manifest]

NoOutcome == [bossVersion |-> Absent, previousVersion |-> Absent,
              bumpType |-> "none", bumpReason |-> NoReason,
              services |-> EmptyManifest]

\* The configured services, what each answers, and a second order of the
\* same services; version.json holds v1.0.0 for each.
InitOrder ==
  /\ config \in {Services(t) : t \in Configs}
  /\ versionJson \in {f \in SeedFiles(config) : f.services # EmptyManifest}
  /\ Idle
  /\ \E world \in [1..Len(config) -> Worlds] :
       \E order \in Permutations(1..Len(config)) :
         call = [NoCall EXCEPT !.fn = "run", !.services = config,
                               !.world = world, !.order = order]
  /\ result = [first |-> NoOutcome, second |-> NoOutcome, done |-> FALSE]

\* run() over the services as configured, and over the same services in the
\* second order.
RunBoth ==
  /\ call.fn = "run"
  /\ ~result.done
  /\ LET permuted == [i \in 1..Len(call.services) |-> call.services[call.order[i]]]
     IN result' = [first |-> runOutcome(call.services, call.world, versionJson),
                   second |-> runOutcome(permuted, call.world, versionJson),
                   done |-> TRUE]
  /\ UNCHANGED <<fileVars, runVars, scanVars, histVars, call>>

NextOrder == RunBoth

\* Runs over the same services and answers in two orders.
SpecOrder == InitOrder /\ [][NextOrder]_vars


\* ------------------------------------------------------------ runs in a row
\* The versionBump of one iteration of the service loop: the delta from the
\* stored tag to the fetched one, "skipped" when the iteration ends at a
\* continue before it.
versionBumpOf(service, world, stored) ==
  LET releases == world[service.name].releases
  IN IF releases.kind = "ok"
     THEN classifyVersionDelta(Lookup(stored, service.name), releases.tag)
     ELSE "skipped"

\* What is kept of a series of runs.  Of the last run: whether it took the
\* override path, the record it loaded, the versionBump of each service, the
\* number of override runs in a row it ends and the version loaded by the
\* first of them.  Of the runs before it: the service that fired the override
\* in the run before and its commit window then, the tag of each service last
\* fetched and stored, and for a service whose fetch failed in the run before
\* the entry that was stored when it began to fail.
NoSeries ==
  [over |-> FALSE, loaded |-> NoRecord, deltas |-> <<>>,
   overRuns |-> 0, base |-> Absent,
   prevBy |-> 0, prevWindow |-> <<>>,
   fetched |-> <<>>, failing |-> <<>>, since |-> <<>>]

InitRuns ==
  /\ config \in {Services(t) : t \in {c \in Configs : Len(c) = 1}}
  /\ versionJson \in SeedFiles(config)
  /\ Idle
  /\ call = [NoCall EXCEPT !.fn = "runs", !.services = config]
  /\ result = [NoSeries EXCEPT
                 !.deltas = [i \in 1..Len(config) |-> "skipped"],
                 !.fetched = [i \in 1..Len(config) |-> Absent],
                 !.failing = [i \in 1..Len(config) |-> FALSE],
                 !.since = [i \in 1..Len(config) |-> Absent]]

\* One whole run of a fleet of one service: version.json is loaded, the
\* service answers as world says, version.json is written (the timestamps
\* are left out).
RunOnce ==
  /\ call.fn = "runs"
  /\ runs < MaxSeries
  /\ \E world \in [1..Len(config) -> Worlds] :
     \E out \in {runOutcome(config, world, versionJson)} :
       LET by == overrideLoop(config, world, 1)
           before == IF runs = 0 THEN 0 ELSE overrideLoop(config, call.world, 1)
           failed(i) == runs > 0 /\ call.world[i].releases.kind = "error"
       IN /\ runs' = runs + 1
          /\ versionJson' = [versionJson EXCEPT
                               !.bossVersion = out.bossVersion,
                               !.previousVersion = out.previousVersion,
                               !.bumpType = out.bumpType,
                               !.bumpReason = out.bumpReason,
                               !.services = out.services]
          /\ call' = [call EXCEPT !.world = world]
          /\ result' =
               [over |-> by # 0,
                loaded |-> versionJson,
                deltas |-> [i \in 1..Len(config) |->
                              IF by # 0 THEN "skipped"
                              ELSE versionBumpOf(config[i], world,
                                                 versionJson.services)],
                overRuns |-> IF by # 0 THEN result.overRuns + 1 ELSE 0,
                base |-> IF by = 0 THEN Absent
                         ELSE IF result.overRuns = 0 THEN versionJson.bossVersion
                         ELSE result.base,
                prevBy |-> before,
                prevWindow |-> IF before = 0 THEN <<>>
                               ELSE call.world[before].commits,
                fetched |-> [i \in 1..Len(config) |->
                               IF runs > 0 /\ call.world[i].releases.kind = "ok"
                               THEN call.world[i].releases.tag
                               ELSE result.fetched[i]],
                failing |-> [i \in 1..Len(config) |-> failed(i)],
                since |-> [i \in 1..Len(config) |->
                             IF ~failed(i) THEN Absent
                             ELSE IF result.failing[i] THEN result.since[i]
                             ELSE Lookup(result.loaded.services, i)]]
          /\ UNCHANGED <<config, now, runVars, scanVars, histVars>>

NextRuns == RunOnce

\* Runs one after the other, each loading what the one before wrote.
SpecRuns == InitRuns /\ [][NextRuns]_vars

\* ------------------------------------------------------------ properties
\* A run of the script has completed: version.json holds what it wrote, and
\* the locals of run() are still those of that run.
Completed == pc = "done"

Normal == Completed /\ ~priorityOverride

Overridden == Completed /\ priorityOverride

LexGeq(a, b) ==
  \/ a[1] > b[1]
  \/ a[1] = b[1] /\ a[2] > b[2]
  \/ a[1] = b[1] /\ a[2] = b[2] /\ a[3] >= b[3]

Loaded == Triple(currentVersion.bossVersion)

Persisted == Triple(versionJson.bossVersion)

\* C1: the version triple written at the end of a run is greater than or
\* equal to, in lexicographic order, the triple loaded at its start; the file
\* changes at no other time, so the persisted version never decreases.
C1_VersionNeverDecreases ==
  /\ Completed => LexGeq(Persisted, Loaded)
  /\ pc \in {"override", "ovManifest", "release", "pulls"} => versionJson = currentVersion

\* A second run that bumps again a version the first run has bumped.
C1_Witness ==
  /\ Completed
  /\ runs = 2
  /\ Loaded # Triple(SeedVersion)
  /\ Persisted # Loaded

\* C2 as stated: whenever the persisted bumpType of a completed run is major,
\* a Tier 1 service had a major raw bump in that run.
C2_MajorNeedsTier1 ==
  Completed /\ versionJson.bumpType = "major" => t1RawMajor

\* C2 amended: on the normal path (no priority override found) a persisted
\* major needs a Tier 1 service with a major raw bump, and a lone Tier 2
\* service with a major version delta yields a minor fleet bump.
C2_MajorNeedsTier1OnNormalPath ==
  /\ Normal /\ versionJson.bumpType = "major" => t1RawMajor
  /\ Normal /\ Len(config) = 1 /\ config[1].tier = 2 /\ signal.versionBump = "major"
       => versionJson.bumpType = "minor"

\* A lone Tier 2 service whose tag moved from v1.0.0 to v2.0.0.
C2_Witness ==
  /\ Normal
  /\ Len(config) = 1
  /\ config[1].tier = 2
  /\ signal.versionBump = "major"
  /\ signal.rawBump = "major"
  /\ versionJson.bumpType = "minor"
  /\ Persisted = <<1, 10, 0>>

\* The services whose commits were requested in this run, in order.
CommitChecks == SelectSeq(requests, LAMBDA r : r.op = "commits")

\* C3: the first service whose commits hold the marker sets the override and
\* no later service is checked; the run then scans no pull request, combines
\* and weighs nothing, and persists major, (major+1, 0, 0) and a
\* justification that names that service.
C3_OverrideShortCircuits ==
  /\ last.op = "commits" /\ last.kind = "marker"
       => priorityOverride /\ overrideRepo = last.svc /\ pc = "ovManifest"
  /\ priorityOverride =>
       /\ pc \in {"ovManifest", "done"}
       /\ Len(CommitChecks) = overrideRepo
       /\ \A i \in 1..Len(CommitChecks) : CommitChecks[i].svc = config[i].name
       /\ \A i \in 1..Len(requests) : requests[i].op # "pulls"
       /\ signal = NoSignal
       /\ highestBump = "none"
       /\ ~t1RawMajor
  /\ Overridden =>
       /\ versionJson.bumpType = "major"
       /\ Persisted = <<Loaded[1] + 1, 0, 0>>
       /\ versionJson.previousVersion = currentVersion.bossVersion
       /\ versionJson.bumpReason = OverrideReason(overrideRepo)

\* The first of two services holds the marker; the second is never checked.
C3_Witness ==
  /\ Overridden
  /\ Len(config) = 2
  /\ overrideRepo = 1
  /\ Len(CommitChecks) = 1
  /\ versionJson.services[2] = V200

\* C4 as stated: every completed run, on either path, writes lastAggregatedAt
\* and lastUpdated equal to the time at which the run completes.
C4_AnchorIsCompletionTime ==
  Completed => /\ versionJson.lastAggregatedAt = now
               /\ versionJson.lastUpdated = now

\* C5: a run without override in which every service has an unchanged tag and
\* no pull request merged after the anchor persists bumpType none and the
\* loaded bossVersion, and moves the anchor forward.
C5_QuietRunIsIdempotent ==
  Normal /\ calm = "quiet" =>
    /\ versionJson.bumpType = "none"
    /\ versionJson.bossVersion = currentVersion.bossVersion
    /\ versionJson.lastAggregatedAt > lastAggregatedAt
    /\ versionJson.lastAggregatedAt = now

\* Two quiet runs in a row.
C5_Witness ==
  /\ Normal
  /\ calm = "quiet"
  /\ runs = 2
  /\ currentVersion.bumpType = "none"
  /\ currentVersion.bumpReason = DefaultReason
  /\ versionJson.bossVersion = SeedVersion
  /\ versionJson.lastAggregatedAt > currentVersion.lastAggregatedAt

ConfiguredNames == {config[i].name : i \in 1..Len(config)}

\* C6: after a completed run, on either path, the persisted manifest has an
\* entry for each configured service and for nothing else, and none is left
\* out (an absent value is dropped when the file is written); the entry a
\* release fetch leaves is the newest tag when the fetch gave one, and else
\* the stored tag or one of the sentinels.
C6_ManifestHasEveryService ==
  /\ Completed =>
       /\ versionJson.services = manifest
       /\ DOMAIN versionJson.services = ConfiguredNames
       /\ \A k \in ConfiguredNames : versionJson.services[k] # Absent
  /\ last.op = "releases" =>
       /\ last.svc \in DOMAIN manifest
       /\ IF last.kind = "ok"
          THEN manifest[last.svc] = last.tag
          ELSE \/ manifest[last.svc] \in Sentinels
               \/ /\ manifest[last.svc] # Absent
                  /\ manifest[last.svc] = Lookup(storedServices, last.svc)

\* A first run over two services: no release for one, a failed fetch for
\* the other.
C6_Witness ==
  /\ Completed
  /\ Len(config) = 2
  /\ storedServices = EmptyManifest
  /\ versionJson.services[1] = NoRelease
  /\ versionJson.services[2] = FetchError

\* What the tags of Tags mean: the triple, or <<>> for a tag that has none.
Meaning(tag) ==
  CASE tag \in {T123, T123Bare} -> <<1, 2, 3>>
    [] tag = T124 -> <<1, 2, 4>>
    [] tag = T119 -> <<1, 1, 9>>
    [] tag = T130 -> <<1, 3, 0>>
    [] tag = T150 -> <<1, 5, 0>>
    [] tag \in {V200, T200Rc} -> <<2, 0, 0>>
    [] tag = T1000 -> <<10, 0, 0>>
    [] OTHER -> <<>>

\* C7: classifyVersionDelta gives one bump level, decided by the
\* highest-order component in which the two triples differ: that level when
\* the new value is the greater there, never the level of a lower-order
\* component, none for equal triples and for an absent or unparsable tag.
C7_HighestDifferingComponentDecides ==
  call.fn = "classifyVersionDelta" =>
    LET o == Meaning(call.oldTag)
        n == Meaning(call.newTag)
    IN /\ result \in BumpLevels
       /\ IF o = <<>> \/ n = <<>> THEN result = "none"
          ELSE IF n[1] # o[1]
               THEN /\ n[1] > o[1] => result = "major"
                    /\ result \notin {"minor", "patch"}
          ELSE IF n[2] # o[2]
               THEN /\ n[2] > o[2] => result = "minor"
                    /\ result \notin {"major", "patch"}
          ELSE IF n[3] # o[3]
               THEN /\ n[3] > o[3] => result = "patch"
                    /\ result \notin {"major", "minor"}
          ELSE result = "none"

\* C8: applyTierWeight is the identity for Tier 1, turns major into minor
\* and nothing else for Tier 2, turns every level but none into patch for
\* Tier 3; the weighted bump is never higher than the raw one.
C8_TierWeightTable ==
  call.fn = "applyTierWeight" /\ call.tier \in Tiers =>
    /\ result = CASE call.tier = 1 -> call.bump
                  [] call.tier = 2 /\ call.bump = "major" -> "minor"
                  [] call.tier = 2 /\ call.bump # "major" -> call.bump
                  [] call.tier = 3 /\ call.bump = "none" -> "none"
                  [] call.tier = 3 /\ call.bump # "none" -> "patch"
    /\ priority[result] <= priority[call.bump]

\* Tier 2 is handed major.
C8_Witness ==
  /\ call.fn = "applyTierWeight"
  /\ call.tier = 2
  /\ call.bump = "major"
  /\ result = "minor"

V142 == <<"1", ".", "4", ".", "2">>
B200 == <<"2", ".", "0", ".", "0">>
B210 == <<"2", ".", "1", ".", "0">>
B211 == <<"2", ".", "1", ".", "1">>

\* C9: the persisted version is the loaded one with the persisted bumpType
\* applied once (major: (M+1,0,0); minor: (M,m+1,0); patch: (M,m,p+1); none:
\* the loaded string), previousVersion is the loaded bossVersion, and from
\* 1.4.2 major, minor, patch in turn give 2.0.0, 2.1.0, 2.1.1.
C9_VersionArithmetic ==
  /\ Completed =>
       /\ versionJson.previousVersion = currentVersion.bossVersion
       /\ versionJson.bumpType = "major" => Persisted = <<Loaded[1] + 1, 0, 0>>
       /\ versionJson.bumpType = "minor" => Persisted = <<Loaded[1], Loaded[2] + 1, 0>>
       /\ versionJson.bumpType = "patch" => Persisted = <<Loaded[1], Loaded[2], Loaded[3] + 1>>
       /\ versionJson.bumpType = "none" => versionJson.bossVersion = currentVersion.bossVersion
       /\ versionJson.bumpType \in BumpLevels
       /\ Len(Split(versionJson.bossVersion)) = 3
  /\ newVersionOf(V142, "major") = B200
  /\ newVersionOf(B200, "minor") = B210
  /\ newVersionOf(B210, "patch") = B211

\* A major bump of 1.9.9 in one run, then a minor bump of 2.0.0 in the next.
C9_Witness ==
  /\ Completed
  /\ runs = 2
  /\ currentVersion.bumpType = "major"
  /\ Loaded = <<2, 0, 0>>
  /\ versionJson.bumpType = "minor"
  /\ versionJson.bossVersion = B210

\* The step is the response to a release request of the service loop, and
\* the response is a failure.
ReleaseFetchFails ==
  /\ pc = "release"
  /\ last'.op = "releases"
  /\ last'.kind = "error"

\* C10: a failed release fetch leaves highestBump and its reason as they
\* were, requests no pull request of the service, records the stored tag (or
\* "fetch-error" when there is none), and goes on to the next service or to
\* the write; a run whose services are unchanged but for failed release
\* fetches persists bumpType none and the loaded version.
C10_FailedReleaseFetch ==
  [][/\ ReleaseFetchFails =>
          /\ highestBump' = highestBump
          /\ bumpReason' = bumpReason
          /\ signal'.serviceBump = "none" /\ ~signal'.scanned
          /\ \A i \in 1..Len(requests') :
               ~(requests'[i].op = "pulls" /\ requests'[i].svc = config[idx].name)
          /\ manifest'[config[idx].name] =
               (IF Lookup(storedServices, config[idx].name) # Absent
                THEN storedServices[config[idx].name] ELSE FetchError)
          /\ \A k \in DOMAIN manifest : manifest'[k] = manifest[k]
          /\ IF idx < Len(config)
             THEN pc' = "release" /\ idx' = idx + 1
             ELSE pc' = "done" /\ versionJson'.services = manifest'
     /\ (pc' = "done" /\ ~priorityOverride' /\ calm' = "failed") =>
          /\ versionJson'.bumpType = "none"
          /\ versionJson'.bossVersion = currentVersion.bossVersion
    ]_vars

\* The release fetch of the second of two services fails; its stored tag is
\* kept, and the run completes with no bump.
C10_Witness ==
  /\ Normal
  /\ Len(config) = 2
  /\ last.op = "releases"
  /\ last.kind = "error"
  /\ last.svc = 2
  /\ calm = "failed"
  /\ storedServices # EmptyManifest
  /\ versionJson.services[2] = V100
  /\ versionJson.bumpType = "none"

\* The highest level, under none < patch < minor < major, that labelToBump
\* gives for tier and one of labels; none when there is no label.
HighestOf(tier, labels) ==
  CHOOSE b \in BumpLevels :
    /\ b = "none" \/ \E i \in 1..Len(labels) : labelToBump(tier, labels[i]) = b
    /\ \A i \in 1..Len(labels) : priority[labelToBump(tier, labels[i])] <= priority[b]

Higher(a, b) == IF priority[a] >= priority[b] THEN a ELSE b

\* The step is the response to a request for a page of pull requests, and
\* the response is a failure.
PageFetchFails ==
  /\ pc = "pulls"
  /\ last'.op = "pulls"
  /\ last'.kind = "error"

\* C11: a failed page of pull requests ends the scan of that repository: no
\* page is requested after it (no retry), the labels of the pages before it
\* are what the scan returns, the service is evaluated from its version
\* delta and those labels, and the run goes on to the next service (or to
\* the write).
C11_PageFailureEndsScanOnly ==
  [][PageFetchFails =>
       /\ requests' = IF pc' = "done"
                      THEN requests \o <<Request("pulls", config[idx], page), WriteFile>>
                      ELSE Append(requests, Request("pulls", config[idx], page))
       /\ signal'.scanned
       /\ signal'.svc = config[idx].name
       /\ signal'.versionBump = versionBump
       /\ signal'.labelBump = HighestOf(config[idx].tier, allLabels)
       /\ signal'.rawBump = Higher(versionBump, signal'.labelBump)
       /\ priority[highestBump'] >= priority[highestBump]
       /\ signal'.serviceBump # "none" => priority[highestBump'] >= priority[signal'.serviceBump]
       /\ manifest' = manifest
       /\ IF idx < Len(config)
          THEN pc' = "release" /\ idx' = idx + 1
          ELSE pc' = "done" /\ versionJson'.bumpType = highestBump'
    ]_vars

\* The first page is full and holds a bugfix PR merged after the anchor; the
\* second page fails; the tag is unchanged, and the service yields patch from
\* the label of the first page.
C11_Witness ==
  /\ last.op = "pulls"
  /\ last.kind = "error"
  /\ pc = "release"
  /\ requests[Len(requests)] = Request("pulls", config[1], 2)
  /\ signal.versionBump = "none"
  /\ signal.labelBump = "patch"
  /\ signal.winningLabel = "bugfix"
  /\ highestBump = "patch"

Writes(log) == {j \in 1..Len(log) : log[j] = WriteFile}

\* C12: version.json is written once per completed run, as the last step of
\* the run: on the normal path after the release of every configured service
\* was requested, on the override path after the override fired and the
\* manifest has every service; until then the file is as it was loaded, and a
\* run that aborts on an unreadable version.json writes nothing.
C12_OneWriteAtTheEnd ==
  [][/\ (versionJson' # versionJson \/ Writes(requests') # {}) =>
          /\ pc # "done" /\ pc' = "done"
          /\ Writes(requests') = {Len(requests')}
          /\ Writes(requests) = {}
          /\ versionJson = currentVersion
          /\ \A i \in 1..Len(config) :
               \E j \in 1..Len(requests') : requests'[j] = Request("releases", config[i], 0)
          /\ DOMAIN versionJson'.services = ConfiguredNames
          /\ IF priorityOverride'
             THEN pc = "ovManifest" /\ idx = Len(config)
             ELSE pc \in {"release", "pulls"} /\ idx = Len(config)
     /\ (pc # "done" /\ pc' = "done") =>
          /\ versionJson' # versionJson
          /\ Writes(requests') = {Len(requests')}
     /\ pc' = "failed" =>
          /\ versionJson' = versionJson
          /\ requests' = <<>>
     /\ pc = "failed" => versionJson' = versionJson
    ]_vars

\* A run that completed and wrote, then a run that aborted: the file is
\* still what the first run wrote.
C12_Witness ==
  /\ pc = "failed"
  /\ runs = 2
  /\ requests = <<>>
  /\ versionJson.lastAggregatedAt # Missing
  /\ versionJson.bumpType = "minor"

\* Whether a pull request was merged, and at or before the anchor.
Stops(pr, since) == pr.merged_at # Missing /\ pr.merged_at <= since

Qualifies(pr, since) == pr.merged_at # Missing /\ pr.merged_at > since

\* The labels of the pull requests of prs at the indices of keep, in order.
RECURSIVE LabelsOf(_, _)
LabelsOf(prs, keep) ==
  IF prs = <<>> THEN <<>>
  ELSE LabelsOf(SubSeq(prs, 1, Len(prs) - 1), keep)
         \o (IF Len(prs) \in keep THEN prs[Len(prs)].labels ELSE <<>>)

\* The pull requests of the pages returned to this call, in page order.
Listed == Flat(call.listed)

\* Index in Listed of the first merged pull request at or before the anchor;
\* Len(Listed) + 1 when there is none.
FirstStop ==
  IF \E i \in 1..Len(Listed) : Stops(Listed[i], call.since)
  THEN CHOOSE i \in 1..Len(Listed) :
         /\ Stops(Listed[i], call.since)
         /\ \A j \in 1..(i - 1) : ~Stops(Listed[j], call.since)
  ELSE Len(Listed) + 1

NoPageFailed == \A i \in 1..Len(call.listed) : call.listed[i].kind = "ok"

\* C13: the labels getPRsSince holds are those of the merged pull requests
\* before the first one merged at or before the anchor, all of them merged
\* after the anchor; that first one ends the scan, so that it lies in the
\* last page requested; a pull request closed without merge adds nothing
\* and stops nothing.
C13_ScanStopsAtTheAnchor ==
  call.fn = "getPRsSince" =>
    /\ result.allLabels =
         LabelsOf(Listed, {i \in 1..(FirstStop - 1) : Listed[i].merged_at # Missing})
    /\ \A i \in 1..Len(Listed) :
         (i < FirstStop /\ Listed[i].merged_at # Missing)
           => Listed[i].merged_at > call.since
    /\ FirstStop <= Len(Listed) =>
         /\ ~result.more
         /\ FirstStop > Len(Flat(SubSeq(call.listed, 1, Len(call.listed) - 1)))

\* A full first page: a PR merged at the anchor, then one merged after it.
\* The scan ends without the label of the second and without a second page.
C13_Witness ==
  /\ call.fn = "getPRsSince"
  /\ Len(call.listed) = 1
  /\ call.listed[1].pad = PerPage - 2
  /\ Stops(call.listed[1].prs[1], call.since)
  /\ Qualifies(call.listed[1].prs[2], call.since)
  /\ result.allLabels = <<>>
  /\ ~result.more

\* C15: when no page fetch has failed, getPRsSince returns every label of
\* every pull request merged after the anchor.
C15_NoQualifyingPRMissed ==
  (call.fn = "getPRsSince" /\ ~result.more /\ NoPageFailed) =>
    result.allLabels = LabelsOf(Listed, {i \in 1..Len(Listed) : Qualifies(Listed[i], call.since)})

IsPrefix(a, b) == Len(a) <= Len(b) /\ SubSeq(b, 1, Len(a)) = a

\* C19: every step of the scan requests one page; a page of fewer than
\* PerPage pull requests (an empty one too) is the last one requested, and
\* the labels collected before it are kept; so a repository of n pages that
\* are not empty is scanned with n + 1 requests at most.
C19_PaginationTerminates ==
  [][call.fn = "getPRsSince" =>
       LET prs == call'.listed[Len(call'.listed)]
       IN /\ result.more
          /\ call'.listed = Append(call.listed, prs)
          /\ (prs.kind = "ok" /\ Len(prs.prs) + prs.pad < PerPage) =>
               /\ ~result'.more
               /\ IsPrefix(result.allLabels, result'.allLabels)
          /\ Len(call'.listed) <= MaxSourcePages + 1
    ]_vars

\* A full first page, then a short second page: both contribute a label and
\* no third page is requested.
C19_Witness ==
  /\ call.fn = "getPRsSince"
  /\ Len(call.listed) = 2
  /\ Len(call.listed[1].prs) + call.listed[1].pad = PerPage
  /\ Len(call.listed[2].prs) = 1
  /\ call.listed[2].pad = 0
  /\ result.allLabels = <<"bugfix", "docs">>
  /\ ~result.more

\* The label table of the claim.
LabelTable(tier, label) ==
  CASE tier = 1 /\ label = "breaking-change" -> "major"
    [] tier \in {1, 2} /\ label \in {"feature", "enhancement"} -> "minor"
    [] tier \in {1, 2} /\ label = "bugfix" -> "patch"
    [] tier = 3 /\ label # "" -> "patch"
    [] OTHER -> "none"

\* C14: the label bump is the highest level the table gives for one of the
\* collected labels (none without labels), and the winning label is the
\* first label, in collection order, that the table gives that level.
C14_LabelBumpIsTheMaximum ==
  (call.fn = "labelBump" /\ result.done) =>
    LET labels == call.labels
        levels == {LabelTable(call.tier, labels[i]) : i \in 1..Len(labels)}
    IN /\ result.labelBump \in levels \cup {"none"}
       /\ \A b \in levels : priority[b] <= priority[result.labelBump]
       /\ labels = <<>> => result.labelBump = "none"
       /\ IF result.labelBump = "none" THEN result.winningLabel = ""
          ELSE \E i \in 1..Len(labels) :
                 /\ result.winningLabel = labels[i]
                 /\ LabelTable(call.tier, labels[i]) = result.labelBump
                 /\ \A j \in 1..(i - 1) :
                      LabelTable(call.tier, labels[j]) # result.labelBump

\* Tier 2 with enhancement, bugfix, feature: minor, won by enhancement.
C14_Witness ==
  /\ call.fn = "labelBump"
  /\ result.done
  /\ call.tier = 2
  /\ call.labels = <<"enhancement", "bugfix", "feature">>
  /\ result.labelBump = "minor"
  /\ result.winningLabel = "enhancement"

\* C16: rawBump is the higher of versionBump and labelBump; the driver is
\* the version delta when versionBump >= labelBump (ties too) and the winning
\* label only when labelBump is strictly higher; serviceBump is
\* applyTierWeight(tier, rawBump); the driver is what the justification of a
\* service gives.  A Tier 1 service with unchanged tag and a bugfix label
\* yields patch.
C16_HigherSignalWins ==
  signal.scanned =>
    /\ priority[signal.rawBump] >= priority[signal.versionBump]
    /\ priority[signal.rawBump] >= priority[signal.labelBump]
    /\ signal.rawBump \in {signal.versionBump, signal.labelBump}
    /\ signal.by = (IF priority[signal.versionBump] >= priority[signal.labelBump]
                    THEN "version delta" ELSE "label")
    /\ signal.serviceBump = applyTierWeight(signal.tier, signal.rawBump)
    /\ (bumpReason.kind = "service" /\ bumpReason.svc = signal.svc) =>
         /\ bumpReason.by = signal.by
         /\ signal.by = "label" => bumpReason.label = signal.winningLabel
    /\ (signal.tier = 1 /\ signal.versionBump = "none" /\ signal.winningLabel = "bugfix")
         => signal.serviceBump = "patch"

\* A lone Tier 1 service, tag v1.0.0 as stored, one bugfix PR after the
\* anchor: patch, driven by the label, 1.9.9 to 1.9.10.
C16_Witness ==
  /\ Normal
  /\ Len(config) = 1
  /\ signal.tier = 1
  /\ storedServices # EmptyManifest
  /\ versionJson.services[1] = V100
  /\ signal.versionBump = "none"
  /\ signal.winningLabel = "bugfix"
  /\ signal.by = "label"
  /\ versionJson.bumpType = "patch"
  /\ versionJson.bumpReason.label = "bugfix"
  /\ Persisted = <<1, 9, 10>>

\* The step ends the evaluation of config[idx] in the service loop.
ServiceEvaluated ==
  /\ pc \in {"release", "pulls"}
  /\ \/ pc' = "release" /\ idx' = idx + 1
     \/ pc' = "done"

\* C17: highestBump starts at none with the default justification; each
\* service evaluated raises it to its serviceBump, and names itself in the
\* justification, exactly when that serviceBump is strictly higher, and
\* leaves both alone otherwise (so the first service reaching the maximum
\* stays named, and a service yielding none changes nothing); what is
\* written is highestBump and its justification.
C17_FleetMaximumFirstWins ==
  [][/\ (pc' = "override" /\ pc # "override") =>
          highestBump' = "none" /\ bumpReason' = DefaultReason
     /\ (pc' \in {"release", "pulls"} /\ ~ServiceEvaluated) =>
          highestBump' = highestBump /\ bumpReason' = bumpReason
     /\ ServiceEvaluated =>
          /\ signal'.svc = config[idx].name
          /\ IF priority[signal'.serviceBump] > priority[highestBump]
             THEN /\ highestBump' = signal'.serviceBump
                  /\ bumpReason'.kind = "service"
                  /\ bumpReason'.svc = config[idx].name
                  /\ bumpReason'.tier = config[idx].tier
                  /\ bumpReason'.by = signal'.by
             ELSE /\ highestBump' = highestBump
                  /\ bumpReason' = bumpReason
          /\ pc' = "done" =>
               /\ versionJson'.bumpType = highestBump'
               /\ versionJson'.bumpReason = bumpReason'
    ]_vars

\* Two services that both yield minor: the first one stays named.
C17_Witness ==
  /\ Normal
  /\ Len(config) = 2
  /\ signal.svc = 2
  /\ signal.serviceBump = "minor"
  /\ versionJson.bumpType = "minor"
  /\ versionJson.bumpReason.svc = 1

\* The step is the response to a commits request of the override check.
CommitsArrive(kind) ==
  /\ pc = "override"
  /\ last'.op = "commits"
  /\ last'.kind = kind

\* C18: a failed commits fetch counts as no marker for that service: the
\* override is not set by it, nothing is written, and the check goes on with
\* the next service, or with the normal path after the last one; a service
\* whose commits hold the marker fires the override wherever it stands in
\* the list.
C18_CommitFailureFailsOpen ==
  [][/\ CommitsArrive("error") =>
          /\ ~priorityOverride'
          /\ overrideRepo' = overrideRepo
          /\ versionJson' = versionJson
          /\ IF idx < Len(config)
             THEN pc' = "override" /\ idx' = idx + 1
             ELSE pc' = "release" /\ idx' = 1
     /\ CommitsArrive("marker") =>
          /\ priorityOverride'
          /\ overrideRepo' = config[idx].name
          /\ pc' = "ovManifest"
    ]_vars

\* The commits fetch of the first of two services has failed; the second is
\* about to be checked.
C18_Witness ==
  /\ pc = "override"
  /\ Len(config) = 2
  /\ idx = 2
  /\ last.op = "commits"
  /\ last.svc = 1
  /\ last.kind = "error"
  /\ ~priorityOverride

\* C20: over the same services with the same answers, in any two orders,
\* the bumpType, the bossVersion and the manifest written are the same.
C20_OrderIndependentOutcome ==
  (call.fn = "run" /\ result.done) =>
    /\ result.first.bumpType = result.second.bumpType
    /\ result.first.bossVersion = result.second.bossVersion
    /\ result.first.services = result.second.services

\* Two services, each yielding minor, in both orders: the same minor bump
\* and manifest, and a justification naming a different service.
C20_Witness ==
  /\ call.fn = "run"
  /\ result.done
  /\ Len(call.services) = 2
  /\ call.order = <<2, 1>>
  /\ result.first.bumpType = "minor"
  /\ result.second.bumpType = "minor"
  /\ result.first.bumpReason.svc = 1
  /\ result.second.bumpReason.svc = 2
  /\ result.first.services = result.second.services

\* The versionBump a run of the series computed for service i.
Delta(i) == result.deltas[i]

\* The release fetch of service i in the last run of the series.
Fetched(i) == call.world[i].releases

InSeries == call.fn = "runs" /\ runs > 0

\* A tag fetched and stored by an earlier run, and fetched again, gives no
\* version delta.
CountedOnce ==
  \A i \in 1..Len(config) :
    (Fetched(i).kind = "ok" /\ result.fetched[i] = Fetched(i).tag) =>
      Delta(i) \in {"none", "skipped"} /\ (~result.over => Delta(i) = "none")

\* A failed fetch leaves the stored entry as it was, run after run.
CarriedForward ==
  \A i \in 1..Len(config) :
    /\ (Fetched(i).kind = "error" /\ Lookup(result.loaded.services, i) # Absent) =>
         versionJson.services[i] = result.loaded.services[i]
    /\ (result.failing[i] /\ result.since[i] # Absent) =>
         result.loaded.services[i] = result.since[i]

\* C21 as stated: a tag is counted as a version delta by at most one run,
\* a failing fetch carries the stored tag forward, and the first later run
\* whose fetch succeeds computes the delta from that tag.
C21_DeltaCountedOnce ==
  InSeries =>
    /\ CountedOnce
    /\ CarriedForward
    /\ \A i \in 1..Len(config) :
         (/\ result.failing[i]
          /\ Fetched(i).kind = "ok"
          /\ classifyVersionDelta(result.since[i], Fetched(i).tag) # "none") =>
           Delta(i) = classifyVersionDelta(result.since[i], Fetched(i).tag)

\* C21 amended: the same, the delta being computed by the first later run
\* whose fetch succeeds in the service loop; a run on the override path
\* stores the fetched tag and computes no delta.
C21_DeltaCountedOnceInServiceLoop ==
  InSeries =>
    /\ CountedOnce
    /\ CarriedForward
    /\ \A i \in 1..Len(config) :
         (result.failing[i] /\ Fetched(i).kind = "ok" /\ ~result.over) =>
           Delta(i) = classifyVersionDelta(result.since[i], Fetched(i).tag)
    /\ \A i \in 1..Len(config) :
         (result.over /\ Fetched(i).kind = "ok") =>
           Delta(i) = "skipped" /\ versionJson.services[i] = Fetched(i).tag

\* The service answered v1.0.0, then failed, then answers v2.0.0: the third
\* run computes major from the tag carried forward.
C21_Witness ==
  /\ InSeries
  /\ runs = 3
  /\ ~result.over
  /\ result.fetched[1] = V100
  /\ result.failing[1]
  /\ result.since[1] = V100
  /\ result.loaded.services[1] = V100
  /\ Fetched(1) = [kind |-> "ok", tag |-> V200]
  /\ Delta(1) = "major"
  /\ versionJson.services[1] = V200

\* C22: a run that finds the marker is followed by an override run whenever
\* the commit window of that service is the same again, whatever was
\* persisted; k override runs in a row raise the major component by k and
\* leave minor and patch at 0.
C22_OverrideRefiresOnSameWindow ==
  InSeries =>
    /\ (result.prevBy # 0 /\ call.world[result.prevBy].commits = result.prevWindow) =>
         /\ result.over
         /\ versionJson.bumpType = "major"
         /\ Persisted = <<Triple(result.loaded.bossVersion)[1] + 1, 0, 0>>
    /\ result.overRuns > 0 =>
         Persisted = <<Triple(result.base)[1] + result.overRuns, 0, 0>>

\* Three override runs in a row over the same commit window: 1.9.9 to 4.0.0.
C22_Witness ==
  /\ InSeries
  /\ runs = 3
  /\ result.overRuns = 3
  /\ result.prevBy = 1
  /\ call.world[1].commits = result.prevWindow
  /\ result.base = SeedVersion
  /\ versionJson.bossVersion = Render(4, 0, 0)

====
